---- MODULE Spec2Model ----
(***************************************************************************)
(* gaussian_renderer.render: one call of render(viewpoint_camera, pc,      *)
(* prePC, pipe, bg_color, scaling_modifier, override_color), executed      *)
(* statement block by statement block.  Tensors are sequences of rows; a   *)
(* row records the cloud and the primitive it was built from, so that the  *)
(* order of every torch.cat is observable.                                 *)
(***************************************************************************)
EXTENDS Integers, Sequences, FiniteSets, TLC

\* ---------------------------------------------------------------- bounds
MaxN == 2          \* primitives per cloud: 0..MaxN
MaxDeg == 1        \* max_sh_degree of a cloud: 0..MaxDeg
MaxRadius == 1     \* the screen radius of a primitive the rasterizer did not cull

\* ---------------------------------------------------------------- floats
\* Tensor entries are integers in units of one half (so that "+ 0.5" is
\* "+ Half"), plus the IEEE not-a-number that 0/0 produces.
NaN == 0 - 1000
Half == 1

FNeg(a) == IF a = NaN THEN NaN ELSE 0 - a
FAdd(a, b) == IF a = NaN \/ b = NaN THEN NaN ELSE a + b
FSub(a, b) == IF a = NaN \/ b = NaN THEN NaN ELSE a - b
FMul(a, b) == IF a = NaN \/ b = NaN THEN NaN ELSE a * b
\* a / b for the divisions line 94 performs: the divisor is the norm of the
\* vector the dividend is a component of, so b = 0 only when a = 0 (0/0).
FDiv(a, b) == IF a = NaN \/ b = NaN \/ b = 0 THEN NaN ELSE a \div b
Abs(a) == IF a < 0 THEN 0 - a ELSE a

\* ---------------------------------------------------------------- tensors
None == [tag |-> "None"]
Tensor(rows, dims) == [tag |-> "Tensor", rows |-> rows, dims |-> dims]
IsNone(t) == t.tag = "None"
Row(cloud, idx, attr, val) == [cloud |-> cloud, idx |-> idx, attr |-> attr, val |-> val]
NumRows(t) == Len(t.rows)

\* torch.cat([a, b], dim=0): the rows of a, then the rows of b.  Every
\* dimension but the first must agree, or torch.cat raises.
CatRaises(a, b) == a.dims # b.dims
Cat(a, b) == Tensor(a.rows \o b.rows, a.dims)

\* t.transpose(1, 2) of an (N, A, B) tensor: an (N, B, A) tensor whose
\* entry [n][b][a] is t[n][a][b].
Transpose12(t) ==
    Tensor([i \in 1..NumRows(t) |->
              [t.rows[i] EXCEPT !.val =
                  [b \in 1..t.dims[2] |-> [a \in 1..t.dims[1] |-> t.rows[i].val[a][b]]]]],
           <<t.dims[2], t.dims[1]>>)

\* t.view(-1, 3, k) of the transposed (non-contiguous) tensor: allowed only
\* when it leaves the shape as it is, and then it changes nothing.
ViewRaises(t, k) == t.dims # <<3, k>>
View3(t, k) == Tensor(t.rows, <<3, k>>)


RECURSIVE FSum(_, _)
\* f[1] + ... + f[n], in float arithmetic
FSum(f, n) == IF n = 0 THEN 0 ELSE FAdd(FSum(f, n - 1), f[n])

\* ---------------------------------------------------------------- clouds
\* A GaussianModel as render reads it: n primitives, max_sh_degree and
\* active_sh_degree <= max_sh_degree.
Cloud(name, n, maxd, actd) ==
    [name |-> name, n |-> n, max_sh_degree |-> maxd, active_sh_degree |-> actd]

\* (max_sh_degree + 1) ** 2
NumCoeffs(deg) == (deg + 1) * (deg + 1)

\* The primitives lie on the x axis: dynamic primitive i at x = i, secondary
\* primitive j at x = -j.
Position(name, i) == IF name = "pc" THEN <<i, 0, 0>> ELSE <<0 - i, 0, 0>>

\* SH coefficient k, colour channel ch, of primitive i: values in -2..2
FeatVal(name, i, k, ch) ==
    ((i + 2 * k + ch + (IF name = "pc" THEN 0 ELSE 1)) % 5) - 2

\* c._xyz and c.get_xyz (the property returns _xyz): (N, 3)
get_xyz(c) ==
    Tensor([i \in 1..c.n |-> Row(c.name, i, "_xyz", Position(c.name, i))], <<3>>)

\* c._opacity: (N, 1)
opacity_(c) ==
    Tensor([i \in 1..c.n |-> Row(c.name, i, "_opacity", <<0>>)], <<1>>)

\* c.get_scaling: (N, 3)
get_scaling(c) ==
    Tensor([i \in 1..c.n |-> Row(c.name, i, "get_scaling", <<1, 1, 1>>)], <<3>>)

\* c.get_rotation: (N, 4)
get_rotation(c) ==
    Tensor([i \in 1..c.n |-> Row(c.name, i, "get_rotation", <<1, 0, 0, 0>>)], <<4>>)

\* c.get_covariance(scaling_modifier): (N, 6), built with the modifier
get_covariance(c, scaling_modifier) ==
    Tensor([i \in 1..c.n |->
              Row(c.name, i, "get_covariance",
                  [k \in 1..6 |-> IF k \in {1, 4, 6} THEN scaling_modifier ELSE 0])],
           <<6>>)

\* c.get_features: (N, C, 3) with C = (max_sh_degree+1)**2, coefficient-major.
\* This is the layout lines 86-87 rely on: transpose(1, 2) turns it into
\* (N, 3, C), the only shape for which view(-1, 3, C) of the transposed,
\* non-contiguous tensor is allowed when C > 1.
get_features(c) ==
    Tensor([i \in 1..c.n |->
              Row(c.name, i, "get_features",
                  [k \in 1..NumCoeffs(c.max_sh_degree) |->
                     [ch \in 1..3 |-> FeatVal(c.name, i, k, ch)]])],
           <<NumCoeffs(c.max_sh_degree), 3>>)

\* ---------------------------------------------------------------- eval_sh
\* utils.sh_utils.eval_sh(deg, sh, dirs): per primitive and channel, the sum
\* over the first (deg+1)**2 coefficients of basis(k, dir) * sh[ch][k].  The
\* basis of degree 0 does not read the direction; the higher ones do.
Basis(k, d) ==
    IF k = 1 THEN 1
    ELSE IF k = 2 THEN FNeg(d[2])
    ELSE IF k = 3 THEN d[3]
    ELSE IF k = 4 THEN FNeg(d[1])
    ELSE FMul(d[(k % 3) + 1], d[((k + 1) % 3) + 1])

\* eval_sh asserts sh.shape[-1] >= (deg + 1) ** 2
EvalShRaises(deg, sh) == sh.dims[2] < NumCoeffs(deg)

eval_sh(deg, sh, dirs) ==
    Tensor([i \in 1..NumRows(sh) |->
              [sh.rows[i] EXCEPT
                 !.attr = "eval_sh",
                 !.val = [ch \in 1..3 |->
                            FSum([k \in 1..NumCoeffs(deg) |->
                                    FMul(Basis(k, dirs.rows[i].val), sh.rows[i].val[ch][k])],
                                 NumCoeffs(deg))]]],
           <<3>>)

\* ---------------------------------------------------------------- state
VARIABLES
    inp,                     \* the arguments of the call and torch's grad mode
    pcl,                     \* the statement block render is about to execute
    screenspace_points,      \* line 26
    screenspace_points_pre,  \* line 32
    retainRaised,            \* whether retain_grad() raised (line 28)
    means3D, opacity, means2D,            \* lines 63-65
    raster_settings,         \* line 43
    scales, rotations, cov3D_precomp,     \* lines 69-71
    shs, colors_precomp,     \* lines 82-83
    reads,                   \* the cloud attributes render has read so far
    rasterCalls,             \* how many times the rasterizer was invoked
    rasterArgs,              \* the keyword arguments of that invocation
    rendered_image, radii,   \* line 108
    result,                  \* the returned dict
    error                    \* the exception that left render, or NoError

vars == <<inp, pcl, screenspace_points, screenspace_points_pre, retainRaised,
          means3D, opacity, means2D, raster_settings, scales, rotations,
          cov3D_precomp, shs, colors_precomp, reads, rasterCalls, rasterArgs,
          rendered_image, radii, result, error>>

\* the exception that leaves render: what raised it, and at which line
NoError == [raised_by |-> "none", at |-> "none"]
Raised(by, at) == [raised_by |-> by, at |-> at]

\* a local that no statement has assigned yet
Unset == [tag |-> "Unset"]

\* world-space camera positions: away from every primitive, and on the
\* dynamic cloud's first primitive
CameraCenters == {<<0, 0, 0>>, <<1, 0, 0>>}

\* a caller-supplied override_color: one colour per merged primitive
OverrideColor(n) ==
    Tensor([i \in 1..n |-> Row("caller", i, "override_color", <<i, 0 - i, 0>>)], <<3>>)

Degrees == {d \in (0..MaxDeg) \X (0..MaxDeg) : d[2] <= d[1]}

Inputs ==
    {[pc |-> Cloud("pc", n1, d1[1], d1[2]),
      prePC |-> Cloud("prePC", n2, d2[1], d2[2]),
      pipe |-> [compute_cov3D_python |-> cov, convert_SHs_python |-> conv, debug |-> FALSE],
      viewpoint_camera |-> [camera_center |-> cam],
      bg_color |-> "bg_color",
      scaling_modifier |-> 1,
      override_color |-> IF ovr THEN OverrideColor(n1 + n2) ELSE None,
      grad_enabled |-> g] :
        n1 \in 0..MaxN, n2 \in 0..MaxN, d1 \in Degrees, d2 \in Degrees,
        cov \in BOOLEAN, conv \in BOOLEAN, ovr \in BOOLEAN, g \in BOOLEAN,
        cam \in CameraCenters}

N1 == inp.pc.n
N2 == inp.prePC.n

Init ==
    /\ inp \in Inputs
    /\ pcl = "start"
    /\ screenspace_points = Unset
    /\ screenspace_points_pre = Unset
    /\ retainRaised = FALSE
    /\ means3D = Unset
    /\ opacity = Unset
    /\ means2D = Unset
    /\ raster_settings = Unset
    /\ scales = Unset
    /\ rotations = Unset
    /\ cov3D_precomp = Unset
    /\ shs = Unset
    /\ colors_precomp = Unset
    /\ reads = {}
    /\ rasterCalls = 0
    /\ rasterArgs = Unset
    /\ rendered_image = Unset
    /\ radii = Unset
    /\ result = Unset
    /\ error = NoError

\* ---------------------------------------------------------------- lines 26-37
\* torch.zeros_like(c.get_xyz, requires_grad=...) + 0: a zero row per
\* primitive.  The sum is a new tensor; it requires grad only if its operand
\* does and torch is recording gradients.
ZerosLikePlus0(c, attr, requires_grad) ==
    [tag |-> "Tensor",
     rows |-> [i \in 1..NumRows(get_xyz(c)) |->
                 Row(c.name, i, attr, [k \in 1..3 |-> FAdd(0, 0)])],
     dims |-> <<3>>,
     requires_grad |-> requires_grad /\ inp.grad_enabled,
     retains_grad |-> FALSE]

\* line 26
CreateScreenspacePoints ==
    /\ pcl = "start"
    /\ screenspace_points' = ZerosLikePlus0(inp.pc, "screenspace_points", TRUE)
    /\ reads' = reads \cup {"pc.get_xyz"}
    /\ pcl' = "retain_grad"
    /\ UNCHANGED <<inp, screenspace_points_pre, retainRaised, means3D, opacity, means2D,
                   raster_settings, scales, rotations, cov3D_precomp, shs,
                   colors_precomp, rasterCalls, rasterArgs, rendered_image, radii,
                   result, error>>

\* Tensor.retain_grad() raises on a tensor that does not require grad
RetainGradRaises(t) == ~t.requires_grad

\* lines 27-28, retain_grad() returning normally
RetainGrad ==
    /\ pcl = "retain_grad"
    /\ ~RetainGradRaises(screenspace_points)
    /\ screenspace_points' = [screenspace_points EXCEPT !.retains_grad = TRUE]
    /\ pcl' = "merge"
    /\ UNCHANGED <<inp, screenspace_points_pre, retainRaised, means3D, opacity, means2D,
                   raster_settings, scales, rotations, cov3D_precomp, shs,
                   colors_precomp, reads, rasterCalls, rasterArgs, rendered_image,
                   radii, result, error>>

\* RetainGradExcept without the try/except of lines 27-30: the exception
\* leaves render
RetainGradExcept_Reraises ==
    /\ pcl = "retain_grad"
    /\ RetainGradRaises(screenspace_points)
    /\ retainRaised' = TRUE
    /\ error' = Raised("retain_grad", "line 28")
    /\ pcl' = "raised"
    /\ UNCHANGED <<inp, screenspace_points, screenspace_points_pre, means3D, opacity,
                   means2D, raster_settings, scales, rotations, cov3D_precomp, shs,
                   colors_precomp, reads, rasterCalls, rasterArgs, rendered_image,
                   radii, result>>

\* lines 27-30, retain_grad() raising: the bare except passes
RetainGradExcept ==
    /\ pcl = "retain_grad"
    /\ RetainGradRaises(screenspace_points)
    /\ retainRaised' = TRUE
    /\ pcl' = "merge"
    /\ UNCHANGED <<inp, screenspace_points, screenspace_points_pre, means3D, opacity,
                   means2D, raster_settings, scales, rotations, cov3D_precomp, shs,
                   colors_precomp, reads, rasterCalls, rasterArgs, rendered_image,
                   radii, result, error>>

\* lines 34, 35, 37: dynamic cloud first
MergedXyz(pc, prePC) == Cat(get_xyz(pc), get_xyz(prePC))
MergedOpacity(pc, prePC) == Cat(opacity_(pc), opacity_(prePC))
MergedScreenspace(points, points_pre) == Cat(points, points_pre)

\* lines 32-37 and 63-65
MergeClouds ==
    /\ pcl = "merge"
    /\ screenspace_points_pre' = ZerosLikePlus0(inp.prePC, "screenspace_points_pre", FALSE)
    /\ means3D' = MergedXyz(inp.pc, inp.prePC)
    /\ opacity' = MergedOpacity(inp.pc, inp.prePC)
    /\ means2D' = MergedScreenspace(screenspace_points, screenspace_points_pre')
    /\ reads' = reads \cup {"prePC.get_xyz", "pc._xyz", "prePC._xyz",
                            "pc._opacity", "prePC._opacity"}
    /\ pcl' = "settings"
    /\ UNCHANGED <<inp, screenspace_points, retainRaised, raster_settings, scales,
                   rotations, cov3D_precomp, shs, colors_precomp, rasterCalls,
                   rasterArgs, rendered_image, radii, result, error>>

\* lines 43-56; the image size, the field of view and the two matrices are
\* copied from the camera and take no part in the merge
RasterSettings(in) ==
    [bg |-> in.bg_color,
     scale_modifier |-> in.scaling_modifier,
     sh_degree |-> in.pc.active_sh_degree,
     campos |-> in.viewpoint_camera.camera_center,
     prefiltered |-> FALSE,
     debug |-> in.pipe.debug]

\* lines 40-58
BuildSettings ==
    /\ pcl = "settings"
    /\ raster_settings' = RasterSettings(inp)
    /\ reads' = reads \cup {"pc.active_sh_degree"}
    /\ pcl' = "geometry"
    /\ UNCHANGED <<inp, screenspace_points, screenspace_points_pre, retainRaised,
                   means3D, opacity, means2D, scales, rotations, cov3D_precomp, shs,
                   colors_precomp, rasterCalls, rasterArgs, rendered_image, radii,
                   result, error>>

\* ---------------------------------------------------------------- lines 69-78
\* MergedCovariance with the clouds concatenated in the order lines 73-74
\* compute them, secondary first
MergedCovariance_SecondaryFirst(pc, prePC, scaling_modifier) ==
    Cat(get_covariance(prePC, scaling_modifier), get_covariance(pc, scaling_modifier))

\* lines 73-75: the secondary covariance is computed first, the dynamic one
\* is concatenated first
MergedCovariance(pc, prePC, scaling_modifier) ==
    Cat(get_covariance(pc, scaling_modifier), get_covariance(prePC, scaling_modifier))

\* line 77
MergedScaling(pc, prePC) == Cat(get_scaling(pc), get_scaling(prePC))

\* line 78
MergedRotation(pc, prePC) == Cat(get_rotation(pc), get_rotation(prePC))

\* PrecomputeCovariance with scales and rotations assigned ahead of the if
\* of line 72 instead of inside its else
PrecomputeCovariance_KeepsScaling ==
    /\ pcl = "geometry"
    /\ inp.pipe.compute_cov3D_python
    /\ scales' = MergedScaling(inp.pc, inp.prePC)
    /\ rotations' = MergedRotation(inp.pc, inp.prePC)
    /\ cov3D_precomp' = MergedCovariance(inp.pc, inp.prePC, inp.scaling_modifier)
    /\ reads' = reads \cup {"prePC.get_covariance", "pc.get_covariance",
                            "pc.get_scaling", "prePC.get_scaling",
                            "pc.get_rotation", "prePC.get_rotation"}
    /\ pcl' = "color"
    /\ UNCHANGED <<inp, screenspace_points, screenspace_points_pre, retainRaised,
                   means3D, opacity, means2D, raster_settings, shs, colors_precomp,
                   rasterCalls, rasterArgs, rendered_image, radii, result, error>>

\* lines 69-75, pipe.compute_cov3D_python true
PrecomputeCovariance ==
    /\ pcl = "geometry"
    /\ inp.pipe.compute_cov3D_python
    /\ scales' = None
    /\ rotations' = None
    /\ cov3D_precomp' = MergedCovariance(inp.pc, inp.prePC, inp.scaling_modifier)
    /\ reads' = reads \cup {"prePC.get_covariance", "pc.get_covariance"}
    /\ pcl' = "color"
    /\ UNCHANGED <<inp, screenspace_points, screenspace_points_pre, retainRaised,
                   means3D, opacity, means2D, raster_settings, shs, colors_precomp,
                   rasterCalls, rasterArgs, rendered_image, radii, result, error>>

\* lines 69-71 and 76-78, pipe.compute_cov3D_python false
UseScalingRotation ==
    /\ pcl = "geometry"
    /\ ~inp.pipe.compute_cov3D_python
    /\ scales' = MergedScaling(inp.pc, inp.prePC)
    /\ rotations' = MergedRotation(inp.pc, inp.prePC)
    /\ cov3D_precomp' = None
    /\ reads' = reads \cup {"pc.get_scaling", "prePC.get_scaling",
                            "pc.get_rotation", "prePC.get_rotation"}
    /\ pcl' = "color"
    /\ UNCHANGED <<inp, screenspace_points, screenspace_points_pre, retainRaised,
                   means3D, opacity, means2D, raster_settings, shs, colors_precomp,
                   rasterCalls, rasterArgs, rendered_image, radii, result, error>>

\* ---------------------------------------------------------------- lines 82-105
\* lines 86, 87: c.get_features.transpose(1, 2).view(-1, 3, (c.max_sh_degree+1)**2)
ShsView(c) == View3(Transpose12(get_features(c)), NumCoeffs(c.max_sh_degree))
ShsViewRaises(c) == ViewRaises(Transpose12(get_features(c)), NumCoeffs(c.max_sh_degree))

\* the length of a vector that lies along one axis
Norm(v) == Abs(v[1]) + Abs(v[2]) + Abs(v[3])

\* lines 91, 92: c.get_xyz - camera_center.repeat(c.get_features.shape[0], 1)
DirPP(c, camera_center) ==
    Tensor([i \in 1..NumRows(get_xyz(c)) |->
              [get_xyz(c).rows[i] EXCEPT
                 !.attr = "dir_pp",
                 !.val = [k \in 1..3 |-> FSub(get_xyz(c).rows[i].val[k], camera_center[k])]]],
           <<3>>)

\* line 94: dir_pp / dir_pp.norm(dim=1, keepdim=True)
Normalized(dir_pp) ==
    Tensor([i \in 1..NumRows(dir_pp) |->
              [dir_pp.rows[i] EXCEPT
                 !.val = [k \in 1..3 |-> FDiv(dir_pp.rows[i].val[k], Norm(dir_pp.rows[i].val))]]],
           dir_pp.dims)

\* torch.clamp_min(x, m): a NaN stays a NaN
ClampMin(x, m) == IF x = NaN THEN NaN ELSE IF x < m THEN m ELSE x

\* line 98: torch.clamp_min(sh2rgb + 0.5, 0.0)
ClampedColors(sh2rgb) ==
    Tensor([i \in 1..NumRows(sh2rgb) |->
              [sh2rgb.rows[i] EXCEPT
                 !.attr = "colors_precomp",
                 !.val = [ch \in 1..3 |-> ClampMin(FAdd(sh2rgb.rows[i].val[ch], Half), 0)]]],
           sh2rgb.dims)

\* lines 86-98: the colours render evaluates itself
LocalColors(pc, prePC, camera_center) ==
    ClampedColors(
        eval_sh(pc.active_sh_degree,
                Cat(ShsView(pc), ShsView(prePC)),
                Normalized(Cat(DirPP(pc, camera_center), DirPP(prePC, camera_center)))))

\* what raises in lines 86-97, if anything: the views, then torch.cat of
\* line 88, then eval_sh
LocalColorsError(pc, prePC) ==
    IF ShsViewRaises(pc) THEN Raised("Tensor.view", "line 86")
    ELSE IF ShsViewRaises(prePC) THEN Raised("Tensor.view", "line 87")
    ELSE IF CatRaises(ShsView(pc), ShsView(prePC)) THEN Raised("torch.cat", "line 88")
    ELSE IF EvalShRaises(pc.active_sh_degree, Cat(ShsView(pc), ShsView(prePC)))
         THEN Raised("eval_sh", "line 97")
    ELSE NoError

\* MergedFeatures with the transpose and view of lines 86-87 applied to each
\* cloud before the concatenation
MergedFeatures_Reshaped(pc, prePC) == Cat(ShsView(pc), ShsView(prePC))

\* MergedFeaturesError for a merge that pads the shorter coefficient list
\* instead of letting torch.cat raise
MergedFeaturesError_Reconciled(pc, prePC) == NoError

\* lines 100-102: the raw coefficients, as get_features lays them out
MergedFeatures(pc, prePC) == Cat(get_features(pc), get_features(prePC))
MergedFeaturesError(pc, prePC) ==
    IF CatRaises(get_features(pc), get_features(prePC))
    THEN Raised("torch.cat", "line 102") ELSE NoError

\* UseOverrideColor with the test of pipe.convert_SHs_python placed before
\* the test of override_color
UseOverrideColor_ConvertWins ==
    /\ pcl = "color"
    /\ ~IsNone(inp.override_color)
    /\ shs' = None
    /\ colors_precomp' =
          IF inp.pipe.convert_SHs_python /\ LocalColorsError(inp.pc, inp.prePC) = NoError
          THEN LocalColors(inp.pc, inp.prePC, inp.viewpoint_camera.camera_center)
          ELSE inp.override_color
    /\ reads' = IF inp.pipe.convert_SHs_python
                THEN reads \cup {"pc.get_features", "prePC.get_features"}
                ELSE reads
    /\ pcl' = "rasterize"
    /\ UNCHANGED <<inp, screenspace_points, screenspace_points_pre, retainRaised,
                   means3D, opacity, means2D, raster_settings, scales, rotations,
                   cov3D_precomp, rasterCalls, rasterArgs, rendered_image, radii,
                   result, error>>

\* lines 82-84 and 104-105: override_color is not None
UseOverrideColor ==
    /\ pcl = "color"
    /\ ~IsNone(inp.override_color)
    /\ shs' = None
    /\ colors_precomp' = inp.override_color
    /\ pcl' = "rasterize"
    /\ UNCHANGED <<inp, screenspace_points, screenspace_points_pre, retainRaised,
                   means3D, opacity, means2D, raster_settings, scales, rotations,
                   cov3D_precomp, reads, rasterCalls, rasterArgs, rendered_image,
                   radii, result, error>>

\* ConvertSHsPython with the merged coefficients assigned to shs instead of
\* a local of their own (shs_view)
ConvertSHsPython_KeepsShs ==
    /\ pcl = "color"
    /\ IsNone(inp.override_color)
    /\ inp.pipe.convert_SHs_python
    /\ LocalColorsError(inp.pc, inp.prePC) = NoError
    /\ shs' = Cat(ShsView(inp.pc), ShsView(inp.prePC))
    /\ colors_precomp' = LocalColors(inp.pc, inp.prePC, inp.viewpoint_camera.camera_center)
    /\ reads' = reads \cup {"pc.get_features", "pc.max_sh_degree",
                            "prePC.get_features", "prePC.max_sh_degree",
                            "pc.get_xyz", "prePC.get_xyz", "pc.active_sh_degree"}
    /\ pcl' = "rasterize"
    /\ UNCHANGED <<inp, screenspace_points, screenspace_points_pre, retainRaised,
                   means3D, opacity, means2D, raster_settings, scales, rotations,
                   cov3D_precomp, rasterCalls, rasterArgs, rendered_image, radii,
                   result, error>>

\* lines 82-98: no override, pipe.convert_SHs_python true, nothing raises
ConvertSHsPython ==
    /\ pcl = "color"
    /\ IsNone(inp.override_color)
    /\ inp.pipe.convert_SHs_python
    /\ LocalColorsError(inp.pc, inp.prePC) = NoError
    /\ shs' = None
    /\ colors_precomp' = LocalColors(inp.pc, inp.prePC, inp.viewpoint_camera.camera_center)
    /\ reads' = reads \cup {"pc.get_features", "pc.max_sh_degree",
                            "prePC.get_features", "prePC.max_sh_degree",
                            "pc.get_xyz", "prePC.get_xyz", "pc.active_sh_degree"}
    /\ pcl' = "rasterize"
    /\ UNCHANGED <<inp, screenspace_points, screenspace_points_pre, retainRaised,
                   means3D, opacity, means2D, raster_settings, scales, rotations,
                   cov3D_precomp, rasterCalls, rasterArgs, rendered_image, radii,
                   result, error>>

\* lines 82-97: no override, pipe.convert_SHs_python true, a statement raises
ConvertSHsPythonRaises ==
    /\ pcl = "color"
    /\ IsNone(inp.override_color)
    /\ inp.pipe.convert_SHs_python
    /\ LocalColorsError(inp.pc, inp.prePC) # NoError
    /\ error' = LocalColorsError(inp.pc, inp.prePC)
    /\ shs' = None
    /\ colors_precomp' = None
    /\ reads' = reads \cup {"pc.get_features", "pc.max_sh_degree",
                            "prePC.get_features", "prePC.max_sh_degree"}
    /\ pcl' = "raised"
    /\ UNCHANGED <<inp, screenspace_points, screenspace_points_pre, retainRaised,
                   means3D, opacity, means2D, raster_settings, scales, rotations,
                   cov3D_precomp, rasterCalls, rasterArgs, rendered_image, radii,
                   result>>

\* lines 82-85 and 99-102: no override, pipe.convert_SHs_python false
PassRawSHs ==
    /\ pcl = "color"
    /\ IsNone(inp.override_color)
    /\ ~inp.pipe.convert_SHs_python
    /\ MergedFeaturesError(inp.pc, inp.prePC) = NoError
    /\ shs' = MergedFeatures(inp.pc, inp.prePC)
    /\ colors_precomp' = None
    /\ reads' = reads \cup {"pc.get_features", "prePC.get_features"}
    /\ pcl' = "rasterize"
    /\ UNCHANGED <<inp, screenspace_points, screenspace_points_pre, retainRaised,
                   means3D, opacity, means2D, raster_settings, scales, rotations,
                   cov3D_precomp, rasterCalls, rasterArgs, rendered_image, radii,
                   result, error>>

\* lines 99-102 with torch.cat raising
PassRawSHsRaises ==
    /\ pcl = "color"
    /\ IsNone(inp.override_color)
    /\ ~inp.pipe.convert_SHs_python
    /\ MergedFeaturesError(inp.pc, inp.prePC) # NoError
    /\ error' = MergedFeaturesError(inp.pc, inp.prePC)
    /\ shs' = None
    /\ colors_precomp' = None
    /\ reads' = reads \cup {"pc.get_features", "prePC.get_features"}
    /\ pcl' = "raised"
    /\ UNCHANGED <<inp, screenspace_points, screenspace_points_pre, retainRaised,
                   means3D, opacity, means2D, raster_settings, scales, rotations,
                   cov3D_precomp, rasterCalls, rasterArgs, rendered_image, radii,
                   result>>

\* ---------------------------------------------------------------- lines 108-123
\* the keyword arguments of lines 109-116
RasterizerCall ==
    [means3D |-> means3D, means2D |-> means2D, shs |-> shs,
     colors_precomp |-> colors_precomp, opacities |-> opacity, scales |-> scales,
     rotations |-> rotations, cov3D_precomp |-> cov3D_precomp,
     raster_settings |-> raster_settings]

\* the radius the rasterizer reports for a primitive: 0 when it culled it
RadiusValues == {0, MaxRadius}

\* lines 108-116: the rasterizer returns an image and one radius per row of
\* means3D, in the order of the rows; which radii is its own business
Rasterize ==
    /\ pcl = "rasterize"
    /\ rasterArgs' = RasterizerCall
    /\ rasterCalls' = rasterCalls + 1
    /\ rendered_image' = "rendered_image"
    /\ \E r \in [1..NumRows(means3D) -> RadiusValues] : radii' = r
    /\ pcl' = "return"
    /\ UNCHANGED <<inp, screenspace_points, screenspace_points_pre, retainRaised,
                   means3D, opacity, means2D, raster_settings, scales, rotations,
                   cov3D_precomp, shs, colors_precomp, reads, result, error>>

\* VisibilityFilter with radii >= 0
VisibilityFilter_NonNegative(r) == [i \in DOMAIN r |-> r[i] >= 0]

\* line 122: radii > 0
VisibilityFilter(r) == [i \in DOMAIN r |-> r[i] > 0]

\* the dict of lines 120-123
ReturnValue(image, points, r) ==
    [render |-> image, viewspace_points |-> points,
     visibility_filter |-> VisibilityFilter(r), radii |-> r]

\* Return with the merged placeholder (means2D) as viewspace_points, as in
\* the single-cloud renderer where means2D = screenspace_points
Return_MergedPlaceholder ==
    /\ pcl = "return"
    /\ result' = ReturnValue(rendered_image, means2D, radii)
    /\ pcl' = "done"
    /\ UNCHANGED <<inp, screenspace_points, screenspace_points_pre, retainRaised,
                   means3D, opacity, means2D, raster_settings, scales, rotations,
                   cov3D_precomp, shs, colors_precomp, reads, rasterCalls, rasterArgs,
                   rendered_image, radii, error>>

\* lines 120-123
Return ==
    /\ pcl = "return"
    /\ result' = ReturnValue(rendered_image, screenspace_points, radii)
    /\ pcl' = "done"
    /\ UNCHANGED <<inp, screenspace_points, screenspace_points_pre, retainRaised,
                   means3D, opacity, means2D, raster_settings, scales, rotations,
                   cov3D_precomp, shs, colors_precomp, reads, rasterCalls, rasterArgs,
                   rendered_image, radii, error>>

Next ==
    \/ CreateScreenspacePoints
    \/ RetainGrad
    \/ RetainGradExcept
    \/ MergeClouds
    \/ BuildSettings
    \/ PrecomputeCovariance
    \/ UseScalingRotation
    \/ UseOverrideColor
    \/ ConvertSHsPython
    \/ ConvertSHsPythonRaises
    \/ PassRawSHs
    \/ PassRawSHsRaises
    \/ Rasterize
    \/ Return

Spec == Init /\ [][Next]_vars

\* ---------------------------------------------------------------- properties
\* the rasterizer has been invoked; rasterArgs holds what it was handed
Called == rasterCalls > 0
Populated(t) == t.tag = "Tensor"

\* t has N1+N2 rows; row i is built from attribute attr of dynamic primitive
\* i, row N1+j from attribute attr of secondary primitive j
DynamicFirst(t, attr) ==
    /\ NumRows(t) = N1 + N2
    /\ \A i \in 1..N1 :
         t.rows[i].cloud = "pc" /\ t.rows[i].idx = i /\ t.rows[i].attr = attr
    /\ \A j \in 1..N2 :
         /\ t.rows[N1 + j].cloud = "prePC"
         /\ t.rows[N1 + j].idx = j
         /\ t.rows[N1 + j].attr = attr

OverrideMode == ~IsNone(inp.override_color)
LocalMode == IsNone(inp.override_color) /\ inp.pipe.convert_SHs_python
DeferredMode == IsNone(inp.override_color) /\ ~inp.pipe.convert_SHs_python

\* C1: every merged per-primitive array handed to the rasterizer (means3D,
\* means2D, opacities, and whichever of cov3D_precomp, scales, rotations, shs
\* and the locally evaluated colours is populated) has N1+N2 rows, the
\* dynamic cloud's primitives first and in order, then the secondary cloud's.
C1_MergedRowsDynamicFirst ==
    Called =>
      /\ DynamicFirst(rasterArgs.means3D, "_xyz")
      /\ rasterArgs.means3D = MergedXyz(inp.pc, inp.prePC)
      /\ NumRows(rasterArgs.means2D) = N1 + N2
      /\ \A i \in 1..N1 :
           /\ rasterArgs.means2D.rows[i].cloud = "pc"
           /\ rasterArgs.means2D.rows[i].idx = i
      /\ \A j \in 1..N2 :
           /\ rasterArgs.means2D.rows[N1 + j].cloud = "prePC"
           /\ rasterArgs.means2D.rows[N1 + j].idx = j
      /\ DynamicFirst(rasterArgs.opacities, "_opacity")
      /\ Populated(rasterArgs.cov3D_precomp) =>
           DynamicFirst(rasterArgs.cov3D_precomp, "get_covariance")
      /\ Populated(rasterArgs.scales) => DynamicFirst(rasterArgs.scales, "get_scaling")
      /\ Populated(rasterArgs.rotations) =>
           DynamicFirst(rasterArgs.rotations, "get_rotation")
      /\ Populated(rasterArgs.shs) => DynamicFirst(rasterArgs.shs, "get_features")
      /\ (LocalMode /\ Populated(rasterArgs.colors_precomp)) =>
           DynamicFirst(rasterArgs.colors_precomp, "colors_precomp")

\* a call with both clouds non-empty, precomputed covariance and locally
\* evaluated colours
C1_Witness ==
    /\ Called
    /\ N1 >= 2
    /\ N2 >= 1
    /\ Populated(rasterArgs.cov3D_precomp)
    /\ LocalMode
    /\ Populated(rasterArgs.colors_precomp)

\* C2: at the rasterizer call, compute_cov3D_python true means cov3D_precomp
\* present and scales and rotations both None; false means scales and
\* rotations both present and cov3D_precomp None.
C2_GeometryExclusive ==
    Called =>
      /\ inp.pipe.compute_cov3D_python =>
           /\ Populated(rasterArgs.cov3D_precomp)
           /\ IsNone(rasterArgs.scales)
           /\ IsNone(rasterArgs.rotations)
      /\ ~inp.pipe.compute_cov3D_python =>
           /\ Populated(rasterArgs.scales)
           /\ Populated(rasterArgs.rotations)
           /\ IsNone(rasterArgs.cov3D_precomp)

C2_Witness ==
    /\ Called
    /\ inp.pipe.compute_cov3D_python
    /\ Populated(rasterArgs.cov3D_precomp)
    /\ N1 + N2 >= 1

\* C3: at the rasterizer call exactly one of shs and colors_precomp is
\* present and the other is None; shs is the present one exactly when
\* override_color is None and convert_SHs_python is false.
C3_ColorExclusive ==
    Called =>
      /\ Populated(rasterArgs.shs) # Populated(rasterArgs.colors_precomp)
      /\ IsNone(rasterArgs.shs) # IsNone(rasterArgs.colors_precomp)
      /\ Populated(rasterArgs.shs) <=> DeferredMode

C3_Witness ==
    /\ Called
    /\ LocalMode
    /\ Populated(rasterArgs.colors_precomp)
    /\ IsNone(rasterArgs.shs)
    /\ N1 >= 1

\* C4: with override_color supplied, colors_precomp at the rasterizer call
\* is that override_color unchanged, whatever convert_SHs_python is, and
\* neither cloud's SH features are ever read.
C4_OverridePassedThrough ==
    OverrideMode =>
      /\ Called => rasterArgs.colors_precomp = inp.override_color
      /\ reads \cap {"pc.get_features", "prePC.get_features"} = {}

C4_Witness ==
    /\ Called
    /\ OverrideMode
    /\ inp.pipe.convert_SHs_python
    /\ N1 >= 1
    /\ N2 >= 1

C6_VisibilityIsPositiveRadius ==
    pcl = "done" =>
      /\ result.radii = radii
      /\ Len(result.radii) = N1 + N2
      /\ Len(result.visibility_filter) = N1 + N2
      /\ \A i \in 1..(N1 + N2) : result.visibility_filter[i] <=> (result.radii[i] > 0)

C6_Witness ==
    /\ pcl = "done"
    /\ \E i \in 1..(N1 + N2) : result.radii[i] = 0 /\ ~result.visibility_filter[i]
    /\ \E i \in 1..(N1 + N2) : result.radii[i] > 0 /\ result.visibility_filter[i]

\* C7: the returned viewspace_points is the dynamic cloud's own placeholder
\* screenspace_points, whose rows are the first N1 rows of means2D: N1 rows
\* whatever N2 is.  The other N2 rows of means2D are the secondary cloud's
\* placeholder, zero and not requiring grad.
C7_ViewspacePointsDynamicOnly ==
    pcl = "done" =>
      /\ result.viewspace_points = screenspace_points
      /\ NumRows(result.viewspace_points) = N1
      /\ result.viewspace_points.requires_grad = inp.grad_enabled
      /\ \A i \in 1..N1 :
           /\ result.viewspace_points.rows[i].attr = "screenspace_points"
           /\ rasterArgs.means2D.rows[i] = result.viewspace_points.rows[i]
      /\ NumRows(rasterArgs.means2D) = N1 + N2
      /\ \A j \in 1..N2 :
           /\ rasterArgs.means2D.rows[N1 + j] = screenspace_points_pre.rows[j]
           /\ rasterArgs.means2D.rows[N1 + j].attr = "screenspace_points_pre"
           /\ rasterArgs.means2D.rows[N1 + j].val = <<0, 0, 0>>
      /\ ~screenspace_points_pre.requires_grad

C7_Witness ==
    /\ pcl = "done"
    /\ N1 >= 1
    /\ N2 >= 1
    /\ inp.grad_enabled
    /\ NumRows(result.viewspace_points) < NumRows(rasterArgs.means2D)

\* C8: retain_grad() raising never aborts render.  The exception is not the
\* one that leaves render; render goes on exactly as when retain_grad()
\* returns: unless the SH merge raises, it invokes the rasterizer once, on
\* the merged batch, and returns the four-entry result.
C8_RetainFailureIgnored ==
    /\ error.raised_by # "retain_grad"
    /\ retainRaised =>
         /\ pcl # "retain_grad"
         /\ pcl = "raised" =>
              /\ error.raised_by = "torch.cat"
              /\ inp.pc.max_sh_degree # inp.prePC.max_sh_degree
         /\ pcl \in {"return", "done"} =>
              /\ rasterCalls = 1
              /\ rasterArgs.means3D = MergedXyz(inp.pc, inp.prePC)
              /\ rasterArgs.opacities = MergedOpacity(inp.pc, inp.prePC)
              /\ NumRows(rasterArgs.means2D) = N1 + N2
              /\ \A i \in 1..(N1 + N2) : rasterArgs.means2D.rows[i].val = <<0, 0, 0>>
         /\ pcl = "done" =>
              /\ result.render = rendered_image
              /\ result.radii = radii
              /\ NumRows(result.viewspace_points) = N1
              /\ Len(result.visibility_filter) = N1 + N2

C8_Witness ==
    /\ pcl = "done"
    /\ retainRaised
    /\ rasterCalls = 1
    /\ N1 >= 1

\* C9, as claimed: in local-evaluation mode every entry of colors_precomp is
\* >= 0, and colors_precomp and the sh_degree of the settings are what they
\* would be for any other active_sh_degree of the secondary cloud.
C9_LocalColorsNonNegative ==
    (Called /\ LocalMode) =>
      /\ \A i \in 1..NumRows(rasterArgs.colors_precomp) :
           \A ch \in 1..3 :
             /\ rasterArgs.colors_precomp.rows[i].val[ch] # NaN
             /\ rasterArgs.colors_precomp.rows[i].val[ch] >= 0
      /\ \A d \in 0..inp.prePC.max_sh_degree :
           /\ rasterArgs.colors_precomp =
                LocalColors(inp.pc, [inp.prePC EXCEPT !.active_sh_degree = d],
                            inp.viewpoint_camera.camera_center)
           /\ rasterArgs.raster_settings =
                RasterSettings([inp EXCEPT !.prePC.active_sh_degree = d])

\* C9, the part of the claim the code keeps: every entry that is a number is
\* >= 0, an entry is not a number only for a primitive at the camera centre
\* evaluated at degree >= 1, and the secondary cloud's active_sh_degree has
\* no influence.
C9_LocalColorsDegreeIndependent ==
    (Called /\ LocalMode) =>
      /\ \A i \in 1..NumRows(rasterArgs.colors_precomp) :
           \A ch \in 1..3 :
             \/ rasterArgs.colors_precomp.rows[i].val[ch] >= 0
             \/ /\ rasterArgs.colors_precomp.rows[i].val[ch] = NaN
                /\ inp.pc.active_sh_degree >= 1
                /\ rasterArgs.means3D.rows[i].val = inp.viewpoint_camera.camera_center
      /\ rasterArgs.raster_settings.sh_degree = inp.pc.active_sh_degree
      /\ \A d \in 0..inp.prePC.max_sh_degree :
           rasterArgs.colors_precomp =
             LocalColors(inp.pc, [inp.prePC EXCEPT !.active_sh_degree = d],
                         inp.viewpoint_camera.camera_center)

\* C10, as claimed: with different max_sh_degree and no override, the shape
\* error that leaves render is raised by the external evaluator, eval_sh or
\* the rasterizer, not by render's merge.
C10_ShapeErrorRaisedDownstream ==
    (IsNone(inp.override_color)
       /\ inp.pc.max_sh_degree # inp.prePC.max_sh_degree
       /\ pcl = "raised") =>
      error.raised_by \in {"eval_sh", "rasterizer"}

\* C10, amended: with different max_sh_degree and no override, render does
\* not reconcile the coefficients; torch.cat of its own merge step (line 88
\* or line 102) raises, before eval_sh or the rasterizer is invoked, and the
\* error leaves render: nothing is rasterized and nothing is returned.
C10_ShapeErrorRaisedByMerge ==
    (IsNone(inp.override_color) /\ inp.pc.max_sh_degree # inp.prePC.max_sh_degree) =>
      /\ pcl \notin {"rasterize", "return", "done"}
      /\ rasterCalls = 0
      /\ result = Unset
      /\ pcl = "raised" =>
           /\ error.raised_by = "torch.cat"
           /\ error.at = (IF inp.pipe.convert_SHs_python THEN "line 88" ELSE "line 102")
           /\ IsNone(shs)
           /\ IsNone(colors_precomp)
      /\ pcl # "raised" => error = NoError

C10_Witness ==
    /\ pcl = "raised"
    /\ IsNone(inp.override_color)
    /\ inp.pc.max_sh_degree # inp.prePC.max_sh_degree
    /\ error.raised_by = "torch.cat"
    /\ N1 >= 1
    /\ N2 >= 1

====
